---- MODULE Spec2Model ----
(***************************************************************************)
(* Model of content/posts/2023/rsa.py: a straight-line script that derives *)
(* a toy RSA key pair from two primes, encrypts and decrypts a string      *)
(* character by character, factors the modulus by trial division and scans *)
(* again for the private exponent.                                         *)
(*                                                                         *)
(* The module-level names of the script are the variables.  `it' is the    *)
(* hidden iterator of the for loop being executed (the next value of       *)
(* range(), or the next list position); `frame' holds the locals of        *)
(* prime_factors; `stdout' is the list of printed lines, each a pair       *)
(* <<source line, printed value>>.  A name that is not bound yet holds 0   *)
(* or the empty sequence and is never read before its assignment.          *)
(*                                                                         *)
(* A Python str is a sequence of characters; a character is a one-letter   *)
(* string (see Chr).  Python integers are unbounded; every intermediate    *)
(* value of the model stays below 2^31 for the inputs explored.            *)
(***************************************************************************)
EXTENDS Integers, Sequences, FiniteSets, TLC

VARIABLES p, q, phi, pe, i, d, example_string, example_string_numeric,
          encrypted, c, decrypted, factors, new_phi,
          frame, pf_arg, it, stdout, pc

vars == <<p, q, phi, pe, i, d, example_string, example_string_numeric,
          encrypted, c, decrypted, factors, new_phi,
          frame, pf_arg, it, stdout, pc>>

----------------------------------------------------------------------------
(* Bounds of the explored inputs *)

\* primes p, q are drawn from the primes up to MaxPrime, plus the literals
MaxPrime == 13
\* length of the strings given to the encrypt / decrypt loops
MaxText == 3
\* prime_factors is called with every n in -MaxNeg .. MaxN
MaxN == 130
MaxNeg == 3

----------------------------------------------------------------------------
(* Literals of the script *)

LiteralP == 61
LiteralQ == 97
\* number of elements of pe at which the e loop breaks
PeLen == 12
\* the two literals of the last loop
RederiveE == 47
RederivePhi == 5760

----------------------------------------------------------------------------
(* Characters: ord() and chr() on printable ASCII *)

\* The characters with code points 32 .. 126 in order.  The grave accent
\* (code point 96) cannot be written in a string here and is spelled "U+96".
AsciiTable ==
  << " ", "!", "\"", "#", "$", "%", "&", "'", "(", ")", "*", "+", ",", "-",
     ".", "/", "0", "1", "2", "3", "4", "5", "6", "7", "8", "9", ":", ";",
     "<", "=", ">", "?", "@", "A", "B", "C", "D", "E", "F", "G", "H", "I",
     "J", "K", "L", "M", "N", "O", "P", "Q", "R", "S", "T", "U", "V", "W",
     "X", "Y", "Z", "[", "\\", "]", "^", "_", "U+96", "a", "b", "c", "d",
     "e", "f", "g", "h", "i", "j", "k", "l", "m", "n", "o", "p", "q", "r",
     "s", "t", "u", "v", "w", "x", "y", "z", "{", "|", "}", "~" >>

Printable == 32..126

PrintableChars == { AsciiTable[k] : k \in DOMAIN AsciiTable }

\* ord(ch) for a printable ASCII character
Ord(ch) == 31 + (CHOOSE k \in DOMAIN AsciiTable : AsciiTable[k] = ch)

\* chr(n); a character outside printable ASCII is written "U+<n>"
Chr(n) == IF n \in Printable THEN AsciiTable[n - 31] ELSE "U+" \o ToString(n)

\* [ord(c) for c in s]
OrdAll(s) == [k \in DOMAIN s |-> Ord(s[k])]

\* [chr(i) for i in s]
ChrAll(s) == [k \in DOMAIN s |-> Chr(s[k])]

\* [str(i) for i in s]
StrAll(s) == [k \in DOMAIN s |-> ToString(s[k])]

\* ' '.join(l) for a list of strings
RECURSIVE JoinSpace(_)
JoinSpace(l) ==
  IF l = <<>> THEN ""
  ELSE IF Len(l) = 1 THEN l[1]
  ELSE l[1] \o " " \o JoinSpace(Tail(l))

----------------------------------------------------------------------------
(* Arithmetic *)

\* math.gcd on non-negative integers (Euclid)
RECURSIVE gcd(_, _)
gcd(a, b) == IF b = 0 THEN a ELSE gcd(b, a % b)


\* the slip b * e % m
PowMulMod(b, e, m) == (b * e) % m

\* b ** e % m : the exact power reduced once, for b >= 0, e >= 0, m >= 1.
\* Computed by square and multiply with a reduction after each product,
\* which yields the same residue as the unbounded power.
RECURSIVE PowMod(_, _, _)
PowMod(b, e, m) ==
  IF e = 0 THEN 1 % m
  ELSE LET h == PowMod(b, e \div 2, m)
           s == (h * h) % m
       IN  IF e % 2 = 1 THEN (s * (b % m)) % m ELSE s

\* pe[-1]
Last(s) == s[Len(s)]

IsPrime(n) == n >= 2 /\ \A k \in 2..(n - 1) : n % k # 0

----------------------------------------------------------------------------
(* Inputs *)

Primes == { n \in 2..MaxPrime : IsPrime(n) } \cup {LiteralP, LiteralQ}

\* "hello:)"
LiteralString == << "h", "e", "l", "l", "o", ":", ")" >>

ScriptTexts == { LiteralString }

\* every printable character at every position of strings of length up to
\* MaxText, the other positions holding "h" or ":" ; and the empty string
BaseChars == { "h", ":" }
RoundTripTexts ==
  { <<>>, LiteralString } \cup
  UNION { { [s EXCEPT ![k] = ch] :
              s \in [1..n -> BaseChars], k \in 1..n, ch \in PrintableChars }
          : n \in 1..MaxText }

FactorInputs == (0 - MaxNeg)..MaxN \cup { LiteralP * LiteralQ }

----------------------------------------------------------------------------
(* The script *)

print(line, value) == stdout' = Append(stdout, <<line, value>>)

\* the values printed by a source line
Printed(line) ==
  { stdout[k][2] : k \in { j \in DOMAIN stdout : stdout[j][1] = line } }

\* lines 3-4, with the two primes as inputs
Start(P, Q) ==
  /\ p = P /\ q = Q
  /\ phi = 0 /\ pe = <<>> /\ i = 0 /\ d = 0
  /\ example_string = <<>> /\ example_string_numeric = <<>>
  /\ encrypted = <<>> /\ c = 0 /\ decrypted = <<>>
  /\ factors = <<>> /\ new_phi = 0
  /\ frame = [n |-> 0, d |-> 0, factors |-> <<>>] /\ pf_arg = 0
  /\ it = 0 /\ stdout = <<>>
  /\ pc = "L6"

Init == \E P \in Primes, Q \in Primes : P # Q /\ Start(P, Q)


\* ComputePhi with the e loop over range(1, phi)
ComputePhiFromOne ==
  /\ pc = "L6"
  /\ phi' = (p - 1) * (q - 1)
  /\ stdout' = stdout \o << <<6, p * q>>, <<11, (p - 1) * (q - 1)>> >>
  /\ pe' = <<>>
  /\ it' = 1
  /\ pc' = "e_loop"
  /\ UNCHANGED <<p, q, i, d, example_string, example_string_numeric,
                 encrypted, c, decrypted, factors, new_phi, frame, pf_arg>>

\* lines 6-14
ComputePhi ==
  /\ pc = "L6"
  /\ phi' = (p - 1) * (q - 1)
  /\ stdout' = stdout \o << <<6, p * q>>, <<11, (p - 1) * (q - 1)>> >>
  /\ pe' = <<>>
  /\ it' = 2
  /\ pc' = "e_loop"
  /\ UNCHANGED <<p, q, i, d, example_string, example_string_numeric,
                 encrypted, c, decrypted, factors, new_phi, frame, pf_arg>>


\* ELoop over range(2, phi - 1)
ELoopShortRange ==
  /\ pc = "e_loop"
  /\ IF it < phi - 1
       THEN /\ i' = it
            /\ it' = it + 1
            /\ IF gcd(it, phi) = 1
                 THEN /\ pe' = Append(pe, it)
                      /\ pc' = IF Len(pe) + 1 = PeLen THEN "L22" ELSE "e_loop"
                 ELSE UNCHANGED <<pe, pc>>
       ELSE /\ pc' = "L22"
            /\ UNCHANGED <<i, it, pe>>
  /\ UNCHANGED <<p, q, phi, d, example_string, example_string_numeric,
                 encrypted, c, decrypted, factors, new_phi, frame, pf_arg,
                 stdout>>

\* lines 15-20, one iteration or the exhaustion of range(2, phi)
ELoop ==
  /\ pc = "e_loop"
  /\ IF it < phi
       THEN /\ i' = it
            /\ it' = it + 1
            /\ IF gcd(it, phi) = 1
                 THEN /\ pe' = Append(pe, it)
                      /\ pc' = IF Len(pe) + 1 = PeLen THEN "L22" ELSE "e_loop"
                 ELSE UNCHANGED <<pe, pc>>
       ELSE /\ pc' = "L22"
            /\ UNCHANGED <<i, it, pe>>
  /\ UNCHANGED <<p, q, phi, d, example_string, example_string_numeric,
                 encrypted, c, decrypted, factors, new_phi, frame, pf_arg,
                 stdout>>

\* lines 22-25; pe[-1] on an empty list raises IndexError and ends the script
PrintE ==
  /\ pc = "L22"
  /\ IF pe = <<>>
       THEN /\ pc' = "IndexError"
            /\ UNCHANGED <<d, it, stdout>>
       ELSE /\ print(22, Last(pe))
            /\ d' = 0
            /\ it' = 0
            /\ pc' = "d_loop"
  /\ UNCHANGED <<p, q, phi, pe, i, example_string, example_string_numeric,
                 encrypted, c, decrypted, factors, new_phi, frame, pf_arg>>


\* DLoop testing the congruence modulo n = p*q instead of phi
DLoopModN ==
  /\ pc = "d_loop"
  /\ IF it < phi
       THEN /\ i' = it
            /\ IF (it * Last(pe)) % (p * q) = 1
                 THEN /\ d' = it
                      /\ pc' = "L31"
                      /\ it' = it
                 ELSE /\ it' = it + 1
                      /\ UNCHANGED <<d, pc>>
       ELSE /\ pc' = "L31"
            /\ UNCHANGED <<i, it, d>>
  /\ UNCHANGED <<p, q, phi, pe, example_string, example_string_numeric,
                 encrypted, c, decrypted, factors, new_phi, frame, pf_arg,
                 stdout>>

\* lines 26-29, one iteration or the exhaustion of range(0, phi)
DLoop ==
  /\ pc = "d_loop"
  /\ IF it < phi
       THEN /\ i' = it
            /\ IF (it * Last(pe)) % phi = 1
                 THEN /\ d' = it
                      /\ pc' = "L31"
                      /\ it' = it
                 ELSE /\ it' = it + 1
                      /\ UNCHANGED <<d, pc>>
       ELSE /\ pc' = "L31"
            /\ UNCHANGED <<i, it, d>>
  /\ UNCHANGED <<p, q, phi, pe, example_string, example_string_numeric,
                 encrypted, c, decrypted, factors, new_phi, frame, pf_arg,
                 stdout>>

\* lines 31-41, with the string literal as an input
SetExampleString(Texts) ==
  /\ pc = "L31"
  /\ \E t \in Texts :
       /\ example_string' = t
       /\ example_string_numeric' = OrdAll(t)
       /\ stdout' = stdout \o << <<31, d>>, <<35, t>>, <<38, OrdAll(t)>> >>
  /\ encrypted' = <<>>
  /\ it' = 1
  /\ pc' = "enc_loop"
  /\ UNCHANGED <<p, q, phi, pe, i, d, c, decrypted, factors, new_phi,
                 frame, pf_arg>>


\* EncLoop inserting at the front of the list instead of appending
EncLoopPrepend ==
  /\ pc = "enc_loop"
  /\ IF it <= Len(example_string_numeric)
       THEN /\ c' = example_string_numeric[it]
            /\ encrypted' =
                 << PowMod(example_string_numeric[it], Last(pe), p * q) >>
                   \o encrypted
            /\ it' = it + 1
            /\ UNCHANGED pc
       ELSE /\ pc' = "L45"
            /\ UNCHANGED <<c, encrypted, it>>
  /\ UNCHANGED <<p, q, phi, pe, i, d, example_string, example_string_numeric,
                 decrypted, factors, new_phi, frame, pf_arg, stdout>>

\* lines 42-43, one iteration or the end of the list
EncLoop ==
  /\ pc = "enc_loop"
  /\ IF it <= Len(example_string_numeric)
       THEN /\ c' = example_string_numeric[it]
            /\ encrypted' =
                 Append(encrypted,
                        PowMod(example_string_numeric[it], Last(pe), p * q))
            /\ it' = it + 1
            /\ UNCHANGED pc
       ELSE /\ pc' = "L45"
            /\ UNCHANGED <<c, encrypted, it>>
  /\ UNCHANGED <<p, q, phi, pe, i, d, example_string, example_string_numeric,
                 decrypted, factors, new_phi, frame, pf_arg, stdout>>

\* lines 45-50
PrintEncrypted ==
  /\ pc = "L45"
  /\ stdout' = stdout \o << <<45, encrypted>>,
                            <<47, JoinSpace(StrAll(encrypted))>> >>
  /\ decrypted' = <<>>
  /\ it' = 1
  /\ pc' = "dec_loop"
  /\ UNCHANGED <<p, q, phi, pe, i, d, example_string, example_string_numeric,
                 encrypted, c, factors, new_phi, frame, pf_arg>>

\* lines 51-52, one iteration or the end of the list
DecLoop ==
  /\ pc = "dec_loop"
  /\ IF it <= Len(encrypted)
       THEN /\ c' = encrypted[it]
            /\ decrypted' = Append(decrypted, PowMod(encrypted[it], d, p * q))
            /\ it' = it + 1
            /\ UNCHANGED pc
       ELSE /\ pc' = "L54"
            /\ UNCHANGED <<c, decrypted, it>>
  /\ UNCHANGED <<p, q, phi, pe, i, d, example_string, example_string_numeric,
                 encrypted, factors, new_phi, frame, pf_arg, stdout>>

\* lines 54-59
PrintDecrypted ==
  /\ pc = "L54"
  /\ stdout' = stdout \o << <<54, decrypted>>, <<56, ChrAll(decrypted)>> >>
  /\ pc' = "L69"
  /\ UNCHANGED <<p, q, phi, pe, i, d, example_string, example_string_numeric,
                 encrypted, c, decrypted, factors, new_phi, frame, pf_arg, it>>


\* PfFrame with the divisor starting at 1
PfFrameFromOne(n) == [n |-> n, d |-> 1, factors |-> <<>>]

\* lines 59-61: the locals of prime_factors(n) on entry
PfFrame(n) == [n |-> n, d |-> 2, factors |-> <<>>]

\* line 69, the call
CallPrimeFactors ==
  /\ pc = "L69"
  /\ frame' = PfFrame(p * q)
  /\ pf_arg' = p * q
  /\ pc' = "pf_outer"
  /\ UNCHANGED <<p, q, phi, pe, i, d, example_string, example_string_numeric,
                 encrypted, c, decrypted, factors, new_phi, it, stdout>>


\* PfOuter with the test n > d
PfOuterUntilD ==
  /\ pc = "pf_outer"
  /\ pc' = IF frame.n > frame.d THEN "pf_inner" ELSE "pf_return"
  /\ UNCHANGED <<p, q, phi, pe, i, d, example_string, example_string_numeric,
                 encrypted, c, decrypted, factors, new_phi, frame, pf_arg, it,
                 stdout>>

\* PfOuter with the test n != 1
PfOuterNotOne ==
  /\ pc = "pf_outer"
  /\ pc' = IF frame.n # 1 THEN "pf_inner" ELSE "pf_return"
  /\ UNCHANGED <<p, q, phi, pe, i, d, example_string, example_string_numeric,
                 encrypted, c, decrypted, factors, new_phi, frame, pf_arg, it,
                 stdout>>

\* line 62, the test of the outer loop
PfOuter ==
  /\ pc = "pf_outer"
  /\ pc' = IF frame.n > 1 THEN "pf_inner" ELSE "pf_return"
  /\ UNCHANGED <<p, q, phi, pe, i, d, example_string, example_string_numeric,
                 encrypted, c, decrypted, factors, new_phi, frame, pf_arg, it,
                 stdout>>


\* PfInner with the divisor d being the module-level d (as under `global d')
PfInnerGlobalD ==
  /\ pc = "pf_inner"
  /\ IF frame.n % frame.d = 0
       THEN /\ frame' = [frame EXCEPT !.factors = Append(@, frame.d),
                                      !.n = @ \div frame.d]
            /\ UNCHANGED <<pc, d>>
       ELSE /\ frame' = [frame EXCEPT !.d = @ + 1]
            /\ d' = frame.d + 1
            /\ pc' = "pf_outer"
  /\ UNCHANGED <<p, q, phi, pe, i, example_string, example_string_numeric,
                 encrypted, c, decrypted, factors, new_phi, pf_arg, it, stdout>>

\* lines 63-66, one iteration of the inner loop or its end.  n /= d makes n
\* a float, which is exact here: d divides n and n < 2^53.
PfInner ==
  /\ pc = "pf_inner"
  /\ IF frame.n % frame.d = 0
       THEN /\ frame' = [frame EXCEPT !.factors = Append(@, frame.d),
                                      !.n = @ \div frame.d]
            /\ UNCHANGED pc
       ELSE /\ frame' = [frame EXCEPT !.d = @ + 1]
            /\ pc' = "pf_outer"
  /\ UNCHANGED <<p, q, phi, pe, i, d, example_string, example_string_numeric,
                 encrypted, c, decrypted, factors, new_phi, pf_arg, it, stdout>>

\* line 67 and the assignment of line 69
PfReturn ==
  /\ pc = "pf_return"
  /\ factors' = frame.factors
  /\ pc' = "L70"
  /\ UNCHANGED <<p, q, phi, pe, i, d, example_string, example_string_numeric,
                 encrypted, c, decrypted, new_phi, frame, pf_arg, it, stdout>>

\* lines 70-72; factors[1] on a shorter list raises IndexError
PrintFactors ==
  /\ pc = "L70"
  /\ print(70, factors)
  /\ IF Len(factors) < 2
       THEN /\ pc' = "IndexError"
            /\ UNCHANGED <<new_phi, it>>
       ELSE /\ new_phi' = (factors[1] - 1) * (factors[2] - 1)
            /\ it' = 0
            /\ pc' = "re_loop"
  /\ UNCHANGED <<p, q, phi, pe, i, d, example_string, example_string_numeric,
                 encrypted, c, decrypted, factors, frame, pf_arg>>

\* lines 73-76, one iteration or the exhaustion of range(0, p*q)
ReLoop ==
  /\ pc = "re_loop"
  /\ IF it < p * q
       THEN /\ i' = it
            /\ IF (RederiveE * it) % RederivePhi = 1
                 THEN /\ print(75, it)
                      /\ pc' = "done"
                      /\ it' = it
                 ELSE /\ it' = it + 1
                      /\ UNCHANGED <<stdout, pc>>
       ELSE /\ pc' = "done"
            /\ UNCHANGED <<i, it, stdout>>
  /\ UNCHANGED <<p, q, phi, pe, d, example_string, example_string_numeric,
                 encrypted, c, decrypted, factors, new_phi, frame, pf_arg>>

Next ==
  \/ ComputePhi
  \/ ELoop
  \/ PrintE
  \/ DLoop
  \/ SetExampleString(ScriptTexts)
  \/ EncLoop
  \/ PrintEncrypted
  \/ DecLoop
  \/ PrintDecrypted
  \/ CallPrimeFactors
  \/ PfOuter
  \/ PfInner
  \/ PfReturn
  \/ PrintFactors
  \/ ReLoop

Spec == Init /\ [][Next]_vars

\* the script through line 57, run on the literal primes with any string
InitRoundTrip == Start(LiteralP, LiteralQ)

NextRoundTrip ==
  \/ ComputePhi
  \/ ELoop
  \/ PrintE
  \/ DLoop
  \/ SetExampleString(RoundTripTexts)
  \/ EncLoop
  \/ PrintEncrypted
  \/ DecLoop
  \/ PrintDecrypted

SpecRoundTrip == InitRoundTrip /\ [][NextRoundTrip]_vars

\* the statement factors = prime_factors(n) alone, for any integer n
InitFactor ==
  \E n \in FactorInputs :
    /\ frame = PfFrame(n) /\ pf_arg = n
    /\ p = 0 /\ q = 0
    /\ phi = 0 /\ pe = <<>> /\ i = 0 /\ d = 0
    /\ example_string = <<>> /\ example_string_numeric = <<>>
    /\ encrypted = <<>> /\ c = 0 /\ decrypted = <<>>
    /\ factors = <<>> /\ new_phi = 0
    /\ it = 0 /\ stdout = <<>>
    /\ pc = "pf_outer"

NextFactor ==
  \/ PfOuter
  \/ PfInner
  \/ PfReturn

SpecFactor == InitFactor /\ [][NextFactor]_vars

\* the interpreter executes the next statement as long as there is one
SpecFactorLive == InitFactor /\ [][NextFactor]_vars /\ WF_vars(NextFactor)

----------------------------------------------------------------------------
(* Properties *)

Range(s) == { s[k] : k \in DOMAIN s }

Ascending(s) == \A j, k \in DOMAIN s : j < k => s[j] < s[k]

NonDecreasing(s) == \A j, k \in DOMAIN s : j < k => s[j] <= s[k]

RECURSIVE Product(_)
Product(s) == IF s = <<>> THEN 1 ELSE Head(s) * Product(Tail(s))

Coprimes(lo, hi, m) == { j \in lo..hi : gcd(j, m) = 1 }

IsLiteralRun == p = LiteralP /\ q = LiteralQ

AfterELoop == pc \notin {"L6", "e_loop"}

AfterDLoop == pc \notin {"L6", "e_loop", "L22", "d_loop", "IndexError"}

\* C1: with the key derived from 61 and 97 (e=47, d=1103, n=5917), for every
\* string over printable ASCII each decrypted value is the code point of the
\* character at the same position, the decrypted list is as long as the
\* string, and the string printed as the result is the original string.
C1_RoundTrip ==
  /\ pc \in {"enc_loop", "L45", "dec_loop", "L54", "L69"} =>
       /\ Last(pe) = 47 /\ d = 1103 /\ p * q = 5917
       /\ \A k \in DOMAIN example_string : Ord(example_string[k]) \in Printable
       /\ Len(decrypted) <= Len(example_string)
       /\ \A k \in DOMAIN decrypted : decrypted[k] = Ord(example_string[k])
  /\ pc \in {"L54", "L69"} => Len(decrypted) = Len(example_string)
  /\ pc = "L69" => Printed(56) = {example_string}

C1_Witness ==
  /\ pc = "L69"
  /\ Len(example_string) >= 2
  /\ example_string[1] = "h" /\ example_string[2] = "~"
  /\ Printed(56) = {example_string}

\* C2: for p=61, q=97 the script prints n=5917 and phi=5760 and the e loop
\* ends with e=47 as the 12th element of pe; 47 lies in [2, phi), is coprime
\* to phi and exactly 11 smaller integers >= 2 are coprime to phi.  For any
\* primes, while the loop runs pe holds, in ascending order, exactly the
\* integers coprime to phi among those scanned so far.
C2_KeyLiteral ==
  /\ pc = "e_loop" =>
       /\ Range(pe) = Coprimes(2, it - 1, phi)
       /\ Ascending(pe)
       /\ Len(pe) < PeLen
  /\ (IsLiteralRun /\ AfterELoop) =>
       /\ Printed(6) = {5917}
       /\ phi = 5760 /\ Printed(11) = {5760}
       /\ Len(pe) = 12 /\ Last(pe) = 47 /\ Ascending(pe)
       /\ Last(pe) \in 2..(phi - 1)
       /\ gcd(Last(pe), phi) = 1
       /\ Cardinality(Coprimes(2, Last(pe) - 1, phi)) = 11
       /\ pc # "L22" => Printed(22) = {47}

C2_Witness == IsLiteralRun /\ pc = "d_loop" /\ it = 0 /\ Printed(22) = {47}

\* C3: the d loop ends with d the smallest non-negative integer such that
\* (d*e) mod phi = 1, found before range(0, phi) is exhausted, so d is not
\* its initial value 0; for p=61, q=97 it is 1103.
C3_SmallestInverse ==
  /\ pc = "d_loop" =>
       /\ d = 0
       /\ \A j \in 0..(it - 1) : (j * Last(pe)) % phi # 1
  /\ AfterDLoop =>
       /\ gcd(Last(pe), phi) = 1 /\ phi > 1
       /\ (d * Last(pe)) % phi = 1
       /\ \A j \in 0..(d - 1) : (j * Last(pe)) % phi # 1
       /\ d # 0 /\ d < phi
       /\ pc = "L31" => it < phi
       /\ pc # "L31" => Printed(31) = {d}
       /\ IsLiteralRun => d = 1103

C3_Witness == IsLiteralRun /\ pc = "enc_loop" /\ d = 1103 /\ Printed(31) = {1103}

\* C4: with p=61, q=97 the string "hello:)" is encoded as
\* [104,101,108,108,111,58,41], encrypted to
\* [3381,5214,2575,2575,3000,3303,3809] and decrypted to
\* [104,101,108,108,111,58,41], printed back as "hello:)".
C4_Hello ==
  (IsLiteralRun /\ AfterDLoop /\ pc # "L31") =>
    /\ example_string = LiteralString
    /\ example_string_numeric = <<104, 101, 108, 108, 111, 58, 41>>
    /\ Printed(38) = {<<104, 101, 108, 108, 111, 58, 41>>}
    /\ pc = "enc_loop" =>
         encrypted = SubSeq(<<3381, 5214, 2575, 2575, 3000, 3303, 3809>>,
                            1, it - 1)
    /\ pc # "enc_loop" =>
         encrypted = <<3381, 5214, 2575, 2575, 3000, 3303, 3809>>
    /\ pc \notin {"enc_loop", "L45"} =>
         /\ Printed(45) = {<<3381, 5214, 2575, 2575, 3000, 3303, 3809>>}
         /\ Printed(47) = {"3381 5214 2575 2575 3000 3303 3809"}
    /\ pc = "dec_loop" =>
         decrypted = SubSeq(<<104, 101, 108, 108, 111, 58, 41>>, 1, it - 1)
    /\ pc \notin {"enc_loop", "L45", "dec_loop"} =>
         decrypted = <<104, 101, 108, 108, 111, 58, 41>>
    /\ pc \notin {"enc_loop", "L45", "dec_loop", "L54"} =>
         /\ Printed(54) = {<<104, 101, 108, 108, 111, 58, 41>>}
         /\ Printed(56) = {LiteralString}

C4_Witness ==
  /\ IsLiteralRun /\ pc = "L69"
  /\ encrypted = <<3381, 5214, 2575, 2575, 3000, 3303, 3809>>
  /\ Printed(56) = {LiteralString}

\* C5: prime_factors(n) of a product n of two distinct primes returns the
\* list of exactly those two primes, the smaller first; for n=5917 it
\* returns [61, 97].
C5_Semiprime ==
  pc = "L70" =>
    /\ \A a \in 2..pf_arg :
         (pf_arg % a = 0 /\ a < pf_arg \div a
            /\ IsPrime(a) /\ IsPrime(pf_arg \div a))
         => factors = <<a, pf_arg \div a>>
    /\ pf_arg = 5917 => factors = <<61, 97>>

C5_Witness == pc = "L70" /\ pf_arg = 5917 /\ factors = <<61, 97>>

\* C6: for every pair of distinct primes, the d printed by the last loop
\* equals the d computed by the d loop from the same primes.
C6_SameD == pc = "done" => Printed(75) = {d}

\* C7 as stated: when fewer than 12 integers in [2, phi) are coprime to phi
\* the e loop never stops and no e is selected.
C7_NeverSelects ==
  (pc # "L6" /\ Cardinality(Coprimes(2, phi - 1, phi)) < PeLen)
    => pc = "e_loop"

\* C7 amended: when fewer than 12 integers in [2, phi) are coprime to phi the
\* e loop stops once range(2, phi) is exhausted, with pe holding all of them
\* in ascending order; if pe is not empty its last element, phi - 1, is
\* printed and used as e, and if pe is empty the script ends with IndexError
\* at line 22.
C7_ExhaustsAndTakesLast ==
  /\ pc = "L22" =>
       /\ Len(pe) < PeLen <=> Cardinality(Coprimes(2, phi - 1, phi)) < PeLen
       /\ Len(pe) < PeLen =>
            /\ it >= phi
            /\ Range(pe) = Coprimes(2, phi - 1, phi)
            /\ Ascending(pe)
  /\ (AfterELoop /\ pc # "L22" /\ Len(pe) < PeLen) =>
       IF pe = <<>>
         THEN pc = "IndexError" /\ Printed(22) = {}
         ELSE /\ pc # "IndexError"
              /\ Last(pe) = phi - 1
              /\ Printed(22) = {phi - 1}

C7_Witness ==
  /\ pc = "done" /\ p = 3 /\ q = 5
  /\ pe = <<3, 5, 7>> /\ Printed(22) = {7}

\* C8: for every n >= 2 the loops of prime_factors keep
\* product(factors) * n equal to the argument, record only primes, in
\* non-decreasing order, and the call returns, with n equal to 1 and the
\* list being the prime factorization of the argument.
C8_FactorInv ==
  pf_arg >= 2 =>
    /\ Product(frame.factors) * frame.n = pf_arg
    /\ \A k \in DOMAIN frame.factors : IsPrime(frame.factors[k])
    /\ NonDecreasing(frame.factors)
    /\ \A k \in DOMAIN frame.factors : frame.factors[k] <= frame.d
    /\ pc \in {"pf_return", "L70"} => frame.n = 1
    /\ pc = "L70" => factors = frame.factors /\ Product(factors) = pf_arg

C8_Factorization ==
  /\ []C8_FactorInv
  /\ (pf_arg >= 2) ~> (pc = "L70")

C8_Witness ==
  /\ pc = "L70" /\ pf_arg = 72
  /\ factors = <<2, 2, 2, 3, 3>>

\* C9 as stated: for every n <= 0 the call prime_factors(n) never returns.
C9_NeverReturns == pf_arg <= 0 => pc # "L70"

\* C9 amended: for every n <= 0 the call prime_factors(n) returns the empty
\* list without executing the body of its loop.
C9_NoLoopInv ==
  pf_arg <= 0 =>
    /\ pc \in {"pf_outer", "pf_return", "L70"}
    /\ frame = PfFrame(pf_arg)
    /\ factors = <<>>

C9_ReturnsEmpty ==
  /\ []C9_NoLoopInv
  /\ (pf_arg <= 0) ~> (pc = "L70" /\ factors = <<>>)

C9_Witness == pc = "L70" /\ pf_arg < 0 /\ factors = <<>> /\ frame.d = 2

\* C10: p, q and phi do not change once computed, pe does not change after
\* the e loop and d does not change after the d loop, in particular not in
\* prime_factors and the last loop; an iteration of the encryption or
\* decryption loop appends one element to its own list and changes neither
\* the other list nor the string.
C10_Frame ==
  /\ p' = p /\ q' = q
  /\ pc # "L6" => phi' = phi
  /\ AfterELoop => pe' = pe
  /\ (AfterDLoop \/ pc = "IndexError") => d' = d
  /\ pc = "enc_loop" =>
       /\ encrypted' = encrypted
            \/ (Len(encrypted') = Len(encrypted) + 1
                  /\ SubSeq(encrypted', 1, Len(encrypted)) = encrypted)
       /\ decrypted' = decrypted
       /\ example_string' = example_string
       /\ example_string_numeric' = example_string_numeric
       /\ factors' = factors
  /\ pc = "dec_loop" =>
       /\ decrypted' = decrypted
            \/ (Len(decrypted') = Len(decrypted) + 1
                  /\ SubSeq(decrypted', 1, Len(decrypted)) = decrypted)
       /\ encrypted' = encrypted
       /\ example_string' = example_string
       /\ example_string_numeric' = example_string_numeric
       /\ factors' = factors

C10_Immutable == [][C10_Frame]_vars

C10_Witness ==
  /\ IsLiteralRun /\ pc = "done"
  /\ d = 1103 /\ Last(pe) = 47 /\ phi = 5760
  /\ frame.d = 98 /\ frame.n = 1 /\ pf_arg = 5917

====
